---------------------------- MODULE Spec2Model ----------------------------
(***************************************************************************)
(* Model of the presence-tracking and event-throttling loop of             *)
(* birdcam_feed.py (display_rtsp_feed).                                     *)
(*                                                                         *)
(* Time is counted in ticks, TicksPerSecond ticks to the second; a         *)
(* datetime is the number of ticks since the process started.  A           *)
(* confidence is counted in hundredths (0.50 is 50).  Python's None is the *)
(* number None, which is no timestamp.                                     *)
(***************************************************************************)
EXTENDS Integers, Sequences, FiniteSets, TLC

\* ---- bounds of the model
MaxTime == 5
TicksPerSecond == 3
MaxBoxes == 2
MaxCalls == 2
MaxFiles == 4
MaxSkip == 2
MaxVideos == 2

\* ---- constants of the program
LOG_INTERVAL_SECONDS == 1
ConfThreshold == 50
None == -1

Interval == LOG_INTERVAL_SECONDS * TicksPerSecond

\* The configured target lists (TARGET_CLASS_NAMES) and the label
\* vocabularies (model.names, id i-1 at position i) the model is run with.
TargetLists ==
    { <<"bird", "mouse", "cat", "dog">>,
      <<"Bird", "unicorn">>,
      <<"unicorn">> }

Vocabularies ==
    { <<"person", "bird", "cat">>,
      <<"BIRD", "car", "bird">>,
      <<"person", "car", "kite">> }

Confidences == {49, 50, 51}

VARIABLES
    TARGET_CLASS_NAMES,        \* the configured names, in order
    class_names,               \* model.names: position i holds the name of id i-1
    pc,                        \* "start", "running", "stopped", "noopen", "aborted"
    mapped_target_class_ids,   \* ordered dict: sequence of [k |-> name, v |-> id]
    object_present_since,      \* dict name -> timestamp or None
    LAST_LOG_TIME,             \* dict name -> timestamp, keys added on first log
    detected_in_current_frame, \* dict name -> BOOLEAN, of the last processed frame
    current_time,              \* timestamp of the last processed frame
    events,                    \* the events of the last iteration, in emission order
    grab,                      \* last cap.read(): "none", "ok", "failed"
    pulled,                    \* number of cap.read() calls
    inferences,                \* number of model(frame) calls
    prev_detected,             \* detected_in_current_frame of the frame before
    llt_before,                \* LAST_LOG_TIME as the last iteration found it
    run_events,                \* per class: timestamps of the events of the current run
    ever_detected,             \* per class: detected in some processed frame
    solo,                      \* per class: the class's machine run on its own signal
    quit_key,                  \* whether the last key poll read 'q'
    polls,                     \* number of cv2.waitKey calls
    annotated_frame,           \* the labelled boxes drawn on the frame's copy
    event_log,                 \* per class: every event so far, in emission order
    run_start,                 \* per class: timestamp of the first frame of the
                               \* current run of detections, or None
    calls,                     \* number of calls of display_rtsp_feed that
                               \* reached the loop
    results                    \* the raw detections under the filter (SpecFilter);
                               \* the loop keeps none past the filter

VARIABLES
    source_dir,                \* frame_picker: entry name -> "none", "file", "dir"
    dest_dir,                  \* frame_picker: [exists, files]: whether it exists, its file names
    frames_to_skip,            \* frame_picker: the argument
    all_frames,                \* frame_picker: the sorted list of files
    skip_counter,              \* frame_picker
    total_count,               \* frame_picker
    frame_index,               \* frame_picker: i, the index of enumerate
    moved,                     \* history: the moves, [name, pos], in order
    src_before,                \* history: source_dir at the call
    video_files,               \* frame_extractor: the videos found by main
    image_format,              \* frame_extractor: config['settings']['image_format']
    conv,                      \* frame_extractor: per video, the attempts made and the return value
    success_files,             \* frame_extractor: main's list
    failed_files               \* frame_extractor: main's list

feedVars == << TARGET_CLASS_NAMES, class_names, mapped_target_class_ids,
               object_present_since, LAST_LOG_TIME, detected_in_current_frame,
               current_time, events, grab, pulled, inferences, prev_detected,
               llt_before, run_events, ever_detected, solo, quit_key, polls,
               annotated_frame, event_log, run_start, calls, results >>

pickerVars == << source_dir, dest_dir, frames_to_skip, all_frames, skip_counter,
                 total_count, frame_index, moved, src_before >>

extractorVars == << video_files, image_format, conv, success_files, failed_files >>

vars == << pc, feedVars, pickerVars, extractorVars >>

\* ------------------------------------------------------------------------
\* str.lower() on the names used here.
Lower(s) ==
    CASE s = "Bird" -> "bird"
      [] s = "BIRD" -> "bird"
      [] s = "Cat"  -> "cat"
      [] s = "CAT"  -> "cat"
      [] OTHER      -> s

\* ---- ordered dict helpers (insertion order is kept, as in Python)
Keys(d) == { d[i].k : i \in DOMAIN d }
KeySeq(d) == [ i \in DOMAIN d |-> d[i].k ]
Get(d, key) == d[CHOOSE i \in DOMAIN d : d[i].k = key].v
DictSet(d, key, val) ==
    IF key \in Keys(d)
    THEN [ i \in DOMAIN d |-> IF d[i].k = key THEN [k |-> key, v |-> val] ELSE d[i] ]
    ELSE Append(d, [k |-> key, v |-> val])

\* ------------------------------------------------------------------------
\* Class resolution (display_rtsp_feed, startup).

\* Mutant: the comparison without lower().
NameMatchesExact(model_name, desired_name) == model_name = desired_name

\* The comparison of a label of the model with a configured name.
NameMatches(model_name, desired_name) == Lower(model_name) = Lower(desired_name)

\* The id of the first label, in id order, that matches; None when none does.
RECURSIVE FindFrom(_, _, _)
FindFrom(names, desired_name, i) ==
    IF i > Len(names) THEN None
    ELSE IF NameMatches(names[i], desired_name) THEN i - 1
    ELSE FindFrom(names, desired_name, i + 1)

FindId(names, desired_name) == FindFrom(names, desired_name, 1)

\* The loop over TARGET_CLASS_NAMES that fills mapped_target_class_ids.
RECURSIVE ResolveFrom(_, _, _, _)
ResolveFrom(targets, names, j, d) ==
    IF j > Len(targets) THEN d
    ELSE LET found_id == FindId(names, targets[j])
         IN  ResolveFrom(targets, names, j + 1,
                 IF found_id # None
                 THEN DictSet(d, Lower(targets[j]), found_id)
                 ELSE d)

Resolve(targets, names) == ResolveFrom(targets, names, 1, <<>>)

\* ------------------------------------------------------------------------
\* Detection filter (the loops over the boxes of a frame).

\* A box is [cls |-> class id, conf |-> confidence in hundredths].
Boxes(names) == [ cls : 0 .. (Len(names) - 1), conf : Confidences ]
RawResults(names) == UNION { [ 1 .. n -> Boxes(names) ] : n \in 0 .. MaxBoxes }

\* Mutant: a confidence equal to the threshold passes.
QualifiesAtThreshold(cls_id, confidence, desired_id) ==
    cls_id = desired_id /\ confidence >= ConfThreshold

Qualifies(cls_id, confidence, desired_id) ==
    cls_id = desired_id /\ confidence > ConfThreshold

\* The inner loop over the mapped classes, left at the first match.
RECURSIVE MatchBox(_, _, _, _)
MatchBox(box, d, i, det) ==
    IF i > Len(d) THEN det
    ELSE IF Qualifies(box.cls, box.conf, d[i].v)
         THEN [ det EXCEPT ![d[i].k] = TRUE ]
         ELSE MatchBox(box, d, i + 1, det)

\* The outer loop over the boxes.
RECURSIVE FilterBoxes(_, _, _, _)
FilterBoxes(res, d, b, det) ==
    IF b > Len(res) THEN det
    ELSE FilterBoxes(res, d, b + 1, MatchBox(res[b], d, 1, det))

DetectedInFrame(res, d) == FilterBoxes(res, d, 1, [ n \in Keys(d) |-> FALSE ])

\* The same loops, as they draw: a qualifying box is drawn on the frame's copy
\* with the label of the class it matched and its confidence.
\* Mutant: a box of a target class is drawn whatever its confidence.
RECURSIVE DrawBoxAnyConfidence(_, _, _, _)
DrawBoxAnyConfidence(box, d, i, img) ==
    IF i > Len(d) THEN img
    ELSE IF box.cls = d[i].v
         THEN img \cup { [ cls |-> d[i].k, conf |-> box.conf ] }
         ELSE DrawBoxAnyConfidence(box, d, i + 1, img)

RECURSIVE DrawBox(_, _, _, _)
DrawBox(box, d, i, img) ==
    IF i > Len(d) THEN img
    ELSE IF Qualifies(box.cls, box.conf, d[i].v)
         THEN img \cup { [ cls |-> d[i].k, conf |-> box.conf ] }
         ELSE DrawBox(box, d, i + 1, img)

RECURSIVE DrawBoxes(_, _, _, _)
DrawBoxes(res, d, b, img) ==
    IF b > Len(res) THEN img
    ELSE DrawBoxes(res, d, b + 1, DrawBox(res[b], d, 1, img))

AnnotatedFrame(res, d) == DrawBoxes(res, d, 1, {})

\* ------------------------------------------------------------------------
\* Presence and throttle, one class: the body of the loop over the classes.
\* Each branch gives the new object_present_since and should_log_and_save.

\* Mutant: the appearance is recorded and not logged.
AppearedSilent(ops, c, t) == [ ops |-> [ ops EXCEPT ![c] = t ], log |-> FALSE ]

Appeared(ops, c, t) == [ ops |-> [ ops EXCEPT ![c] = t ], log |-> TRUE ]

\* Mutant: any later frame passes the throttle.
ThrottleElapsedLoose(llt, c, t) ==
    c \notin DOMAIN llt \/ (t - llt[c]) > 0

\* Mutant: a frame exactly one interval after the last log does not pass.
ThrottleElapsedStrict(llt, c, t) ==
    c \notin DOMAIN llt \/ (t - llt[c]) > Interval

ThrottleElapsed(llt, c, t) ==
    c \notin DOMAIN llt \/ (t - llt[c]) >= Interval

\* Mutant: every frame of a presence restamps present_since.
StillPresentRestamps(ops, llt, c, t) ==
    [ ops |-> [ ops EXCEPT ![c] = t ], log |-> ThrottleElapsed(llt, c, t) ]

StillPresent(ops, llt, c, t) == [ ops |-> ops, log |-> ThrottleElapsed(llt, c, t) ]

\* Mutant: should_log_and_save is left set on absence.
AbsentLogs(ops, c) == [ ops |-> [ ops EXCEPT ![c] = None ], log |-> TRUE ]

\* Mutant: absence of one class resets the presence of every class.
AbsentClearsAll(ops, c) == [ ops |-> [ k \in DOMAIN ops |-> None ], log |-> FALSE ]

Absent(ops, c) == [ ops |-> [ ops EXCEPT ![c] = None ], log |-> FALSE ]

\* Mutant: the last log time is kept only when the image was written.
SetLastLogIfWritten(llt, c, t, written) == IF written THEN (c :> t) @@ llt ELSE llt

\* cv2.imwrite gives back whether it wrote (written); the value is dropped.
SetLastLog(llt, c, t, written) == (c :> t) @@ llt

\* Mutant: the throttle is applied to an appearance too.
ClassStepThrottled(st, c, det, t, ok) ==
    LET br == IF det[c]
              THEN IF st.ops[c] = None
                   THEN [ ops |-> [ st.ops EXCEPT ![c] = t ],
                          log |-> ThrottleElapsed(st.llt, c, t) ]
                   ELSE StillPresent(st.ops, st.llt, c, t)
              ELSE Absent(st.ops, c)
    IN  IF br.log
        THEN [ ops    |-> br.ops,
               llt    |-> SetLastLog(st.llt, c, t, ok[c]),
               events |-> Append(st.events, [ cls |-> c, t |-> t, ok |-> ok[c] ]) ]
        ELSE [ ops |-> br.ops, llt |-> st.llt, events |-> st.events ]

\* Mutant: an event is stamped with the start of the presence.
ClassStepStampsSince(st, c, det, t, ok) ==
    LET br == IF det[c]
              THEN IF st.ops[c] = None
                   THEN Appeared(st.ops, c, t)
                   ELSE StillPresent(st.ops, st.llt, c, t)
              ELSE Absent(st.ops, c)
    IN  IF br.log
        THEN [ ops    |-> br.ops,
               llt    |-> SetLastLog(st.llt, c, t, ok[c]),
               events |-> Append(st.events,
                                 [ cls |-> c, t |-> br.ops[c], ok |-> ok[c] ]) ]
        ELSE [ ops |-> br.ops, llt |-> st.llt, events |-> st.events ]

\* Mutant: absence forgets the class's last log time.
ClassStepForgets(st, c, det, t, ok) ==
    LET br == IF det[c]
              THEN IF st.ops[c] = None
                   THEN Appeared(st.ops, c, t)
                   ELSE StillPresent(st.ops, st.llt, c, t)
              ELSE Absent(st.ops, c)
    IN  IF br.log
        THEN [ ops    |-> br.ops,
               llt    |-> SetLastLog(st.llt, c, t, ok[c]),
               events |-> Append(st.events, [ cls |-> c, t |-> t, ok |-> ok[c] ]) ]
        ELSE [ ops    |-> br.ops,
               llt    |-> IF det[c] THEN st.llt
                          ELSE [ k \in (DOMAIN st.llt) \ {c} |-> st.llt[k] ],
               events |-> st.events ]

ClassStep(st, c, det, t, ok) ==
    LET br == IF det[c]
              THEN IF st.ops[c] = None
                   THEN Appeared(st.ops, c, t)
                   ELSE StillPresent(st.ops, st.llt, c, t)
              ELSE Absent(st.ops, c)
    IN  IF br.log
        THEN [ ops    |-> br.ops,
               llt    |-> SetLastLog(st.llt, c, t, ok[c]),
               events |-> Append(st.events, [ cls |-> c, t |-> t, ok |-> ok[c] ]) ]
        ELSE [ ops |-> br.ops, llt |-> st.llt, events |-> st.events ]

RECURSIVE UpdateFrom(_, _, _, _, _, _)
UpdateFrom(keys, i, st, det, t, ok) ==
    IF i > Len(keys) THEN st
    ELSE UpdateFrom(keys, i + 1, ClassStep(st, keys[i], det, t, ok), det, t, ok)

UpdateClasses(keys, ops, llt, det, t, ok) ==
    UpdateFrom(keys, 1, [ ops |-> ops, llt |-> llt, events |-> <<>> ], det, t, ok)

\* Mutant: the name is cut to the minute.
ImageFilenameByMinute(c, t) == [ cls |-> c, sec |-> t \div (60 * TicksPerSecond) ]

\* Mutant: the loop goes on after 'q'.
AfterPollIgnores(quit) == "running"

\* The name of an event's image: the class and strftime('%Y%m%d_%H%M%S') of the
\* timestamp, which drops the fraction of the second.
ImageFilename(c, t) == [ cls |-> c, sec |-> t \div TicksPerSecond ]

\* The key poll at the end of an iteration: 'q' leaves the loop.
AfterPoll(quit) == IF quit THEN "stopped" ELSE "running"

\* ------------------------------------------------------------------------
\* The program.

\* The utilities are not running.
PickerIdle ==
    /\ source_dir = <<>>
    /\ dest_dir = [ exists |-> FALSE, files |-> {} ]
    /\ frames_to_skip = 0
    /\ all_frames = <<>>
    /\ skip_counter = 0
    /\ total_count = 0
    /\ frame_index = 0
    /\ moved = <<>>
    /\ src_before = <<>>

ExtractorIdle ==
    /\ video_files = {}
    /\ image_format = "jpg"
    /\ conv = <<>>
    /\ success_files = <<>>
    /\ failed_files = <<>>

Init ==
    /\ TARGET_CLASS_NAMES \in TargetLists
    /\ class_names \in Vocabularies
    /\ pc = "start"
    /\ mapped_target_class_ids = <<>>
    /\ object_present_since = <<>>
    /\ LAST_LOG_TIME = <<>>
    /\ detected_in_current_frame = <<>>
    /\ current_time = 0
    /\ events = <<>>
    /\ grab = "none"
    /\ pulled = 0
    /\ inferences = 0
    /\ prev_detected = <<>>
    /\ llt_before = <<>>
    /\ run_events = <<>>
    /\ ever_detected = <<>>
    /\ solo = <<>>
    /\ quit_key = FALSE
    /\ polls = 0
    /\ annotated_frame = {}
    /\ event_log = <<>>
    /\ run_start = <<>>
    /\ calls = 0
    /\ PickerIdle
    /\ ExtractorIdle
    /\ results = <<>>

\* cap.isOpened() is false: the function returns before the model is loaded.
OpenFailed ==
    /\ pc = "start"
    /\ pc' = "noopen"
    /\ UNCHANGED << pickerVars, extractorVars >>
    /\ UNCHANGED << TARGET_CLASS_NAMES, class_names, mapped_target_class_ids,
                    object_present_since, LAST_LOG_TIME, detected_in_current_frame,
                    current_time, events, grab, pulled, inferences, prev_detected,
                    llt_before, run_events, ever_detected, solo, quit_key, polls,
                    annotated_frame, event_log, run_start, calls, results >>

\* The stream opened and no configured name resolved: the function returns.
StartupAbort ==
    /\ pc = "start"
    /\ Resolve(TARGET_CLASS_NAMES, class_names) = <<>>
    /\ pc' = "aborted"
    /\ mapped_target_class_ids' = Resolve(TARGET_CLASS_NAMES, class_names)
    /\ UNCHANGED << pickerVars, extractorVars >>
    /\ UNCHANGED << TARGET_CLASS_NAMES, class_names,
                    object_present_since, LAST_LOG_TIME, detected_in_current_frame,
                    current_time, events, grab, pulled, inferences, prev_detected,
                    llt_before, run_events, ever_detected, solo, quit_key, polls,
                    annotated_frame, event_log, run_start, calls, results >>

\* The stream opened and some name resolved: the loop is entered.
EnterLoop ==
    /\ pc = "start"
    /\ Resolve(TARGET_CLASS_NAMES, class_names) # <<>>
    /\ pc' = "running"
    /\ mapped_target_class_ids' = Resolve(TARGET_CLASS_NAMES, class_names)
    /\ LET K == Keys(mapped_target_class_ids')
       IN  /\ object_present_since' = [ n \in K |-> None ]
           /\ detected_in_current_frame' = [ n \in K |-> FALSE ]
           /\ prev_detected' = [ n \in K |-> FALSE ]
           /\ run_events' = [ n \in K |-> <<>> ]
           /\ ever_detected' = [ n \in K |-> FALSE ]
           /\ solo' = [ n \in K |->
                         [ ops |-> (n :> None), llt |-> <<>>, events |-> <<>> ] ]
           /\ event_log' = [ n \in K |-> <<>> ]
           /\ run_start' = [ n \in K |-> None ]
    /\ calls' = 1
    /\ UNCHANGED << pickerVars, extractorVars >>
    /\ UNCHANGED << TARGET_CLASS_NAMES, class_names, LAST_LOG_TIME, current_time,
                    events, grab, pulled, inferences, llt_before, quit_key, polls,
                    annotated_frame, results >>

\* Mutant: a failed read is retried.
GrabFailedRetry ==
    /\ pc = "running"
    /\ grab' = "failed"
    /\ pulled' = pulled + 1
    /\ events' = <<>>
    /\ pc' = "running"
    /\ pulled < MaxTime
    /\ UNCHANGED << pickerVars, extractorVars >>
    /\ UNCHANGED << TARGET_CLASS_NAMES, class_names, mapped_target_class_ids,
                    object_present_since, LAST_LOG_TIME, detected_in_current_frame,
                    current_time, inferences, prev_detected, llt_before,
                    run_events, ever_detected, solo, quit_key, polls,
                    annotated_frame, event_log, run_start, calls, results >>

\* cap.read() gives no frame: the loop is left.
GrabFailed ==
    /\ pc = "running"
    /\ grab' = "failed"
    /\ pulled' = pulled + 1
    /\ events' = <<>>
    /\ pc' = "stopped"
    /\ UNCHANGED << pickerVars, extractorVars >>
    /\ UNCHANGED << TARGET_CLASS_NAMES, class_names, mapped_target_class_ids,
                    object_present_since, LAST_LOG_TIME, detected_in_current_frame,
                    current_time, inferences, prev_detected, llt_before,
                    run_events, ever_detected, solo, quit_key, polls,
                    annotated_frame, event_log, run_start, calls, results >>

\* cap.read() gives a frame; the model is run on it and its boxes are filtered.
Detect ==
    /\ pc = "running"
    /\ current_time < MaxTime
    /\ grab' = "ok"
    /\ pulled' = pulled + 1
    /\ inferences' = inferences + 1
    /\ \E fr \in { [ det |-> DetectedInFrame(res, mapped_target_class_ids),
                       img |-> AnnotatedFrame(res, mapped_target_class_ids) ] :
                         res \in RawResults(class_names) } :
           /\ detected_in_current_frame' = fr.det
           /\ annotated_frame' = fr.img
    /\ prev_detected' = detected_in_current_frame
    /\ events' = <<>>
    /\ pc' = "detected"
    /\ UNCHANGED << pickerVars, extractorVars >>
    /\ UNCHANGED << TARGET_CLASS_NAMES, class_names, mapped_target_class_ids,
                    object_present_since, LAST_LOG_TIME, current_time, llt_before,
                    run_events, ever_detected, solo, quit_key, polls, event_log,
                    run_start, calls, results >>

\* The rest of the iteration: the clock is read, every class is updated, the
\* due events are saved, and the key is polled.  The clock has advanced since
\* the frame before, by at most the throttle interval; ok[c] is what
\* cv2.imwrite returns for class c's image if one is saved.
Update ==
    /\ pc = "detected"
    /\ \E t \in (current_time + 1) .. MaxTime,
          ok \in [ Keys(mapped_target_class_ids) -> BOOLEAN ],
          quit \in BOOLEAN :
          LET det == detected_in_current_frame
              st  == UpdateClasses(KeySeq(mapped_target_class_ids),
                                   object_present_since, LAST_LOG_TIME, det, t, ok)
              logged(c) == \E i \in DOMAIN st.events : st.events[i].cls = c
              evs(c) == SelectSeq(st.events, LAMBDA e : e.cls = c)
          IN  /\ t - current_time <= Interval
              /\ current_time' = t
              /\ object_present_since' = st.ops
              /\ LAST_LOG_TIME' = st.llt
              /\ events' = st.events
              /\ llt_before' = LAST_LOG_TIME
              /\ run_events' = [ c \in DOMAIN run_events |->
                                    IF ~det[c] THEN <<>>
                                    ELSE IF logged(c) THEN Append(run_events[c], t)
                                    ELSE run_events[c] ]
              /\ ever_detected' = [ c \in DOMAIN ever_detected |->
                                       ever_detected[c] \/ det[c] ]
              /\ solo' = [ c \in DOMAIN solo |->
                              UpdateClasses(<<c>>, solo[c].ops, solo[c].llt,
                                            (c :> det[c]), t, (c :> ok[c])) ]
              /\ event_log' = [ c \in DOMAIN event_log |->
                                   event_log[c] \o
                                   [ i \in DOMAIN evs(c) |->
                                       [ t        |-> evs(c)[i].t,
                                         frame    |-> inferences,
                                         appeared |-> ~prev_detected[c],
                                         name     |-> ImageFilename(c, evs(c)[i].t) ] ] ]
              /\ run_start' = [ c \in DOMAIN run_start |->
                                   IF ~det[c] THEN None
                                   ELSE IF prev_detected[c] THEN run_start[c]
                                   ELSE t ]
              /\ quit_key' = quit
              /\ polls' = polls + 1
              /\ pc' = AfterPoll(quit)
    /\ UNCHANGED << pickerVars, extractorVars >>
    /\ UNCHANGED << TARGET_CLASS_NAMES, class_names, mapped_target_class_ids,
                    detected_in_current_frame, grab, pulled, inferences,
                    prev_detected, annotated_frame, calls, results >>

Next ==
    \/ OpenFailed
    \/ StartupAbort
    \/ EnterLoop
    \/ GrabFailed
    \/ Detect
    \/ Update

Spec == Init /\ [][Next]_vars

\* ------------------------------------------------------------------------
\* The function called again in the same process, after a call that left the
\* loop: the stream opens, the same names resolve and the loop is entered.
\* object_present_since is made anew; the module's LAST_LOG_TIME is not.
Reenter ==
    /\ pc = "stopped"
    /\ calls < MaxCalls
    /\ calls' = calls + 1
    /\ pc' = "running"
    /\ grab' = "none"
    /\ events' = <<>>
    /\ quit_key' = FALSE
    /\ annotated_frame' = {}
    /\ LET K == Keys(mapped_target_class_ids)
       IN  /\ object_present_since' = [ n \in K |-> None ]
           /\ detected_in_current_frame' = [ n \in K |-> FALSE ]
           /\ prev_detected' = [ n \in K |-> FALSE ]
           /\ run_events' = [ n \in K |-> <<>> ]
           /\ run_start' = [ n \in K |-> None ]
           /\ solo' = [ n \in K |->
                         [ ops |-> (n :> None), llt |-> solo[n].llt, events |-> <<>> ] ]
    /\ UNCHANGED << pickerVars, extractorVars >>
    /\ UNCHANGED << TARGET_CLASS_NAMES, class_names, mapped_target_class_ids,
                    LAST_LOG_TIME, current_time, pulled, inferences, llt_before,
                    ever_detected, polls, event_log, results >>

NextRestart ==
    \/ Next
    \/ Reenter

SpecRestart == Init /\ [][NextRestart]_vars

\* ------------------------------------------------------------------------
\* The filter on its own: a frame's raw detections, then its presence flags.

FilterInit ==
    /\ TARGET_CLASS_NAMES \in TargetLists
    /\ class_names \in Vocabularies
    /\ pc = "filter"
    /\ mapped_target_class_ids = Resolve(TARGET_CLASS_NAMES, class_names)
    /\ results \in RawResults(class_names)
    /\ detected_in_current_frame = [ n \in Keys(mapped_target_class_ids) |-> FALSE ]
    /\ object_present_since = <<>>
    /\ LAST_LOG_TIME = <<>>
    /\ current_time = 0
    /\ events = <<>>
    /\ grab = "none"
    /\ pulled = 0
    /\ inferences = 0
    /\ prev_detected = <<>>
    /\ llt_before = <<>>
    /\ run_events = <<>>
    /\ ever_detected = <<>>
    /\ solo = <<>>
    /\ quit_key = FALSE
    /\ polls = 0
    /\ annotated_frame = {}
    /\ event_log = <<>>
    /\ run_start = <<>>
    /\ calls = 0
    /\ PickerIdle
    /\ ExtractorIdle

FilterFrame ==
    /\ pc = "filter"
    /\ detected_in_current_frame' = DetectedInFrame(results, mapped_target_class_ids)
    /\ annotated_frame' = AnnotatedFrame(results, mapped_target_class_ids)
    /\ pc' = "filtered"
    /\ UNCHANGED << pickerVars, extractorVars >>
    /\ UNCHANGED << TARGET_CLASS_NAMES, class_names, mapped_target_class_ids,
                    object_present_since, LAST_LOG_TIME, current_time, events, grab,
                    pulled, inferences, prev_detected, llt_before, run_events,
                    ever_detected, solo, quit_key, polls, event_log, run_start,
                    calls, results >>

FilterNext == FilterFrame

SpecFilter == FilterInit /\ [][FilterNext]_vars

\* ------------------------------------------------------------------------
\* The feed is not running (the utilities are separate programs).
FeedIdle ==
    /\ TARGET_CLASS_NAMES = <<>>
    /\ class_names = <<>>
    /\ mapped_target_class_ids = <<>>
    /\ object_present_since = <<>>
    /\ LAST_LOG_TIME = <<>>
    /\ detected_in_current_frame = <<>>
    /\ current_time = 0
    /\ events = <<>>
    /\ grab = "none"
    /\ pulled = 0
    /\ inferences = 0
    /\ prev_detected = <<>>
    /\ llt_before = <<>>
    /\ run_events = <<>>
    /\ ever_detected = <<>>
    /\ solo = <<>>
    /\ quit_key = FALSE
    /\ polls = 0
    /\ annotated_frame = {}
    /\ event_log = <<>>
    /\ run_start = <<>>
    /\ calls = 0
    /\ results = <<>>

\* ------------------------------------------------------------------------
\* frame_picker.select_and_move_images(source_dir, dest_dir, frames_to_skip).
\* Entry names are numbers, ordered as sorted() orders the names.

FileNames == 1 .. MaxFiles
SourceDirs == [ FileNames -> {"none", "file", "dir"} ]
DestDirs ==
    { [ exists |-> FALSE, files |-> {} ],
      [ exists |-> TRUE, files |-> {} ],
      [ exists |-> TRUE, files |-> {1} ] }

\* [f for f in os.listdir(source_dir) if os.path.isfile(...)]
Files(dir) == { f \in DOMAIN dir : dir[f] = "file" }

\* sorted(...): the least remaining name first.
RECURSIVE Sorted(_)
Sorted(names) ==
    IF names = {} THEN <<>>
    ELSE LET least == CHOOSE f \in names : \A g \in names : f <= g
         IN  <<least>> \o Sorted(names \ {least})

\* os.makedirs(dest_dir) when it does not exist.
MakeDirs(dir) == IF ~dir.exists THEN [ exists |-> TRUE, files |-> {} ] ELSE dir

\* Mutant: one more frame is skipped after each move.
ResetSkipCounterPlusOne(k) == k + 1

\* skip_counter = frames_to_skip
ResetSkipCounter(k) == k

PickerInit ==
    /\ pc = "picker_start"
    /\ source_dir \in SourceDirs
    /\ dest_dir \in DestDirs
    /\ frames_to_skip \in 0 .. MaxSkip
    /\ all_frames = <<>>
    /\ skip_counter = 0
    /\ total_count = 0
    /\ frame_index = 0
    /\ moved = <<>>
    /\ src_before = source_dir
    /\ FeedIdle
    /\ ExtractorIdle

ListFrames ==
    /\ pc = "picker_start"
    /\ dest_dir' = MakeDirs(dest_dir)
    /\ total_count' = 0
    /\ all_frames' = Sorted(Files(source_dir))
    /\ skip_counter' = 0
    /\ frame_index' = 0
    /\ pc' = "picking"
    /\ UNCHANGED << source_dir, frames_to_skip, moved, src_before >>
    /\ UNCHANGED << feedVars, extractorVars >>

MoveFrame ==
    /\ pc = "picking"
    /\ frame_index < Len(all_frames)
    /\ skip_counter = 0
    /\ LET frame_name == all_frames[frame_index + 1]
       IN  /\ source_dir' = [ source_dir EXCEPT ![frame_name] = "none" ]
           /\ dest_dir' = [ dest_dir EXCEPT !.files = @ \cup {frame_name} ]
           /\ moved' = Append(moved, [ name |-> frame_name, pos |-> frame_index ])
    /\ skip_counter' = ResetSkipCounter(frames_to_skip)
    /\ total_count' = total_count + 1
    /\ frame_index' = frame_index + 1
    /\ UNCHANGED << pc, frames_to_skip, all_frames, src_before >>
    /\ UNCHANGED << feedVars, extractorVars >>

SkipFrame ==
    /\ pc = "picking"
    /\ frame_index < Len(all_frames)
    /\ skip_counter # 0
    /\ skip_counter' = skip_counter - 1
    /\ frame_index' = frame_index + 1
    /\ UNCHANGED << pc, source_dir, dest_dir, frames_to_skip, all_frames,
                    total_count, moved, src_before >>
    /\ UNCHANGED << feedVars, extractorVars >>

PickerDone ==
    /\ pc = "picking"
    /\ frame_index = Len(all_frames)
    /\ pc' = "picker_done"
    /\ UNCHANGED << pickerVars, feedVars, extractorVars >>

PickerNext ==
    \/ ListFrames
    \/ MoveFrame
    \/ SkipFrame
    \/ PickerDone

\* A running program takes its next step.
SpecPicker == PickerInit /\ [][PickerNext]_vars /\ WF_vars(PickerNext)

\* ------------------------------------------------------------------------
\* frame_extractor: main's pool of convert_video_to_frames(video_path, config)
\* calls. Video names are numbers; an error message is the number of the
\* attempt whose stderr it quotes.

Videos == 1 .. MaxVideos
ImageFormats == {"jpg", "png"}

\* ffmpeg's run(): it returns, or raises ffmpeg.Error.
Outcomes == {"ok", "error"}

\* Lines 63-69.
OutputOptions(fmt) ==
    IF fmt = "png" THEN {"pix_fmt"} ELSE {"qscale:v", "pix_fmt"}

\* The elements of a list.
Range(f) == { f[j] : j \in DOMAIN f }

\* Mutant: the first ffmpeg.Error is final.
AfterAttemptGivesUp(c, v, decoder, outcome, last, fmt) ==
    LET tried == Append(c.tried, [ decoder |-> decoder, outcome |-> outcome,
                                   opts |-> OutputOptions(fmt) ])
    IN  [ tried |-> tried,
          ret   |-> IF outcome = "ok" THEN <<TRUE, v, None>>
                    ELSE <<FALSE, v, Len(tried)>> ]

\* One try block: return on success; on ffmpeg.Error go on to the handler,
\* which in the innermost block (last) returns the failure.
AfterAttempt(c, v, decoder, outcome, last, fmt) ==
    LET tried == Append(c.tried, [ decoder |-> decoder, outcome |-> outcome,
                                   opts |-> OutputOptions(fmt) ])
    IN  [ tried |-> tried,
          ret   |-> IF outcome = "ok" THEN <<TRUE, v, None>>
                    ELSE IF last THEN <<FALSE, v, Len(tried)>>
                    ELSE <<>> ]

\* The handler of attempt n is running: n attempts made, the last one failed.
InHandler(c, n) ==
    /\ c.ret = <<>>
    /\ Len(c.tried) = n
    /\ n > 0 => c.tried[n].outcome = "error"

ExtractorInit ==
    /\ pc = "extracting"
    /\ video_files \in (SUBSET Videos) \ {{}}
    /\ image_format \in ImageFormats
    /\ conv = [ v \in video_files |-> [ tried |-> <<>>, ret |-> <<>> ] ]
    /\ success_files = <<>>
    /\ failed_files = <<>>
    /\ FeedIdle
    /\ PickerIdle

TryGpu ==
    \E v \in video_files :
        /\ pc = "extracting"
        /\ InHandler(conv[v], 0)
        /\ \E outcome \in Outcomes :
               conv' = [ conv EXCEPT ![v] =
                           AfterAttempt(@, v, "gpu", outcome, FALSE, image_format) ]
        /\ UNCHANGED << pc, video_files, image_format, success_files, failed_files >>
        /\ UNCHANGED << feedVars, pickerVars >>

TryCpu ==
    \E v \in video_files :
        /\ pc = "extracting"
        /\ InHandler(conv[v], 1)
        /\ \E outcome \in Outcomes :
               conv' = [ conv EXCEPT ![v] =
                           AfterAttempt(@, v, "cpu", outcome, FALSE, image_format) ]
        /\ UNCHANGED << pc, video_files, image_format, success_files, failed_files >>
        /\ UNCHANGED << feedVars, pickerVars >>

TryTonemap ==
    \E v \in video_files :
        /\ pc = "extracting"
        /\ InHandler(conv[v], 2)
        /\ \E outcome \in Outcomes :
               conv' = [ conv EXCEPT ![v] =
                           AfterAttempt(@, v, "tonemap", outcome, TRUE, image_format) ]
        /\ UNCHANGED << pc, video_files, image_format, success_files, failed_files >>
        /\ UNCHANGED << feedVars, pickerVars >>

\* main, lines 168-172: one result of imap_unordered.
Collect ==
    \E v \in video_files :
        /\ pc = "extracting"
        /\ conv[v].ret # <<>>
        /\ v \notin Range(success_files) \cup Range(failed_files)
        /\ IF conv[v].ret[1]
           THEN /\ success_files' = Append(success_files, conv[v].ret[2])
                /\ UNCHANGED failed_files
           ELSE /\ failed_files' = Append(failed_files, conv[v].ret[2])
                /\ UNCHANGED success_files
        /\ UNCHANGED << pc, video_files, image_format, conv >>
        /\ UNCHANGED << feedVars, pickerVars >>

\* main, lines 174-182: every result was read.
ExtractDone ==
    /\ pc = "extracting"
    /\ video_files = Range(success_files) \cup Range(failed_files)
    /\ pc' = "extract_done"
    /\ UNCHANGED << extractorVars, feedVars, pickerVars >>

ExtractorNext ==
    \/ TryGpu
    \/ TryCpu
    \/ TryTonemap
    \/ Collect
    \/ ExtractDone

\* A running program takes its next step.
SpecExtractor == ExtractorInit /\ [][ExtractorNext]_vars /\ WF_vars(ExtractorNext)

\* ------------------------------------------------------------------------
\* Properties.

Classes == Keys(mapped_target_class_ids)

\* The state is the one a complete iteration on a frame has left.
Processed == grab = "ok" /\ pc \in {"running", "stopped"}

EventsOf(c) == SelectSeq(events, LAMBDA e : e.cls = c)

\* C1: a class detected in a processed frame and not detected in the frame
\* before (or in no frame before) emits exactly one event in that frame, with
\* the frame's timestamp, and its present_since and last log time are then
\* that timestamp.
C1_ImmediateOnAppearance ==
    \A c \in Classes :
        (Processed /\ detected_in_current_frame[c] /\ ~prev_detected[c])
        => /\ Len(EventsOf(c)) = 1
           /\ EventsOf(c)[1].t = current_time
           /\ object_present_since[c] = current_time
           /\ c \in DOMAIN LAST_LOG_TIME
           /\ LAST_LOG_TIME[c] = current_time

\* A class appears in the first frame of the run and its event is emitted.
C1_Witness ==
    \E c \in Classes :
        /\ Processed /\ inferences = 1
        /\ detected_in_current_frame[c] /\ ~prev_detected[c]
        /\ Len(EventsOf(c)) = 1
        /\ LAST_LOG_TIME[c] = current_time

\* C2: within one run of consecutive frames in which a class is detected, two
\* consecutive events of the class are at least the throttle interval apart.
C2_ThrottledSustainedPresence ==
    \A c \in Classes :
        \A i \in 1 .. (Len(run_events[c]) - 1) :
            run_events[c][i + 1] - run_events[c][i] >= Interval

\* A run holds a second event, and a frame of the run emitted none.
C2_Witness ==
    \E c \in Classes :
        /\ Len(run_events[c]) >= 2
        /\ Processed /\ detected_in_current_frame[c] /\ EventsOf(c) = <<>>

\* C3: a class that was logged before, was not detected in the frame before
\* and is detected in this frame emits an event in this frame although less
\* than the throttle interval has passed since its last event.
C3_ReappearanceBypassesThrottle ==
    \A c \in Classes :
        ( /\ Processed
          /\ detected_in_current_frame[c] /\ ~prev_detected[c]
          /\ c \in DOMAIN llt_before
          /\ current_time - llt_before[c] < Interval )
        => /\ Len(EventsOf(c)) = 1
           /\ EventsOf(c)[1].t = current_time

\* A class reappears sooner than the interval after its last event.
C3_Witness ==
    \E c \in Classes :
        /\ Processed
        /\ detected_in_current_frame[c] /\ ~prev_detected[c]
        /\ c \in DOMAIN llt_before
        /\ current_time - llt_before[c] < Interval
        /\ Len(EventsOf(c)) = 1

\* C4: every event of an iteration is of a class detected in its frame; a
\* class never detected has no event, is absent and has no last log time.
C4_Silence ==
    /\ \A i \in DOMAIN events :
           /\ events[i].cls \in Classes
           /\ detected_in_current_frame[events[i].cls]
    /\ \A c \in Classes :
           ~ever_detected[c]
           => /\ EventsOf(c) = <<>>
              /\ object_present_since[c] = None
              /\ c \notin DOMAIN LAST_LOG_TIME

\* After several frames one class was never detected while another emitted.
C4_Witness ==
    \E c \in Classes :
        /\ Processed /\ inferences >= 3
        /\ ~ever_detected[c]
        /\ events # <<>>
        /\ c \notin DOMAIN LAST_LOG_TIME

\* C5: a frame in which a class is not detected leaves the class's
\* present_since unset, emits no event of the class, and leaves its last log
\* time as the iteration found it.
C5_AbsenceKeepsThrottleMemory ==
    \A c \in Classes :
        (Processed /\ ~detected_in_current_frame[c])
        => /\ object_present_since[c] = None
           /\ EventsOf(c) = <<>>
           /\ (c \in DOMAIN LAST_LOG_TIME) = (c \in DOMAIN llt_before)
           /\ (c \in DOMAIN LAST_LOG_TIME => LAST_LOG_TIME[c] = llt_before[c])

\* A class that was present and logged is absent in this frame.
C5_Witness ==
    \E c \in Classes :
        /\ Processed
        /\ ~detected_in_current_frame[c] /\ prev_detected[c]
        /\ object_present_since[c] = None
        /\ c \in DOMAIN LAST_LOG_TIME

\* C6: after the filter a class is flagged exactly when some raw detection has
\* the class's resolved id and a confidence strictly above the threshold;
\* detections at or below the threshold, or of no target class, flag nothing.
C6_FilterRule ==
    pc = "filtered" =>
        /\ DOMAIN detected_in_current_frame = Classes
        /\ \A c \in Classes :
               detected_in_current_frame[c]
               = (\E i \in DOMAIN results :
                      /\ results[i].cls = Get(mapped_target_class_ids, c)
                      /\ results[i].conf > ConfThreshold)
        /\ (\A i \in DOMAIN results :
                \/ results[i].conf <= ConfThreshold
                \/ \A c \in Classes : results[i].cls # Get(mapped_target_class_ids, c))
           => \A c \in Classes : ~detected_in_current_frame[c]

\* One class is flagged by a detection above the threshold while another has
\* only a detection at the threshold and is not flagged.
C6_Witness ==
    /\ pc = "filtered"
    /\ \E c, d \in Classes :
           /\ c # d
           /\ detected_in_current_frame[c] /\ ~detected_in_current_frame[d]
           /\ \E i \in DOMAIN results :
                  /\ results[i].cls = Get(mapped_target_class_ids, d)
                  /\ results[i].conf = ConfThreshold

\* C7: an event whose image was not written still sets the class's last log
\* time to the event's timestamp and keeps present_since set, and the loop
\* goes on unless the key poll read 'q'.
C7_WriteFailureKeepsTransition ==
    \A i \in DOMAIN events :
        ~events[i].ok
        => /\ events[i].cls \in DOMAIN LAST_LOG_TIME
           /\ LAST_LOG_TIME[events[i].cls] = events[i].t
           /\ events[i].t = current_time
           /\ object_present_since[events[i].cls] # None
           /\ (~quit_key => pc = "running")

\* A sustained presence is logged again, the write fails, the loop goes on.
C7_Witness ==
    \E i \in DOMAIN events :
        /\ ~events[i].ok
        /\ pc = "running"
        /\ Len(run_events[events[i].cls]) >= 2
        /\ LAST_LOG_TIME[events[i].cls] = current_time

\* C8: a failed read stops the loop in that iteration, with no detection, no
\* change of any class's state and no event; after it no frame is pulled.
C8_GrabFailureStops ==
    [][ /\ (grab' = "failed" /\ pulled' = pulled + 1)
           => /\ pc' = "stopped"
              /\ inferences' = inferences
              /\ events' = <<>>
              /\ UNCHANGED << object_present_since, LAST_LOG_TIME,
                              detected_in_current_frame, current_time >>
        /\ grab = "failed"
           => /\ pulled' = pulled
              /\ inferences' = inferences
              /\ events' = <<>> ]_vars

\* A read fails after frames were processed and events logged.
C8_Witness ==
    /\ grab = "failed" /\ pc = "stopped"
    /\ pulled >= 3
    /\ \E c \in Classes : c \in DOMAIN LAST_LOG_TIME /\ object_present_since[c] # None

\* C9: once the names are resolved, a configured name has a state machine
\* exactly when some label equals it up to case, under the id of the first
\* such label; only resolved names have state or events; and when no name
\* resolves the loop is not entered: no frame is pulled and no event emitted.
C9_ClassResolution ==
    /\ pc \notin {"start", "noopen"}
       => \A j \in DOMAIN TARGET_CLASS_NAMES :
              LET n == TARGET_CLASS_NAMES[j]
                  M == { i \in DOMAIN class_names : Lower(class_names[i]) = Lower(n) }
              IN  /\ (Lower(n) \in Classes) = (M # {})
                  /\ M # {} => /\ Get(mapped_target_class_ids, Lower(n)) + 1 \in M
                               /\ \A i \in M :
                                      Get(mapped_target_class_ids, Lower(n)) + 1 <= i
    /\ Classes \subseteq { Lower(TARGET_CLASS_NAMES[j]) : j \in DOMAIN TARGET_CLASS_NAMES }
    /\ DOMAIN object_present_since \subseteq Classes
    /\ DOMAIN LAST_LOG_TIME \subseteq Classes
    /\ \A i \in DOMAIN events : events[i].cls \in Classes
    /\ (\A j \in DOMAIN TARGET_CLASS_NAMES : \A i \in DOMAIN class_names :
            Lower(class_names[i]) # Lower(TARGET_CLASS_NAMES[j]))
       => /\ pc \in {"start", "noopen", "aborted"}
          /\ pulled = 0 /\ inferences = 0
          /\ events = <<>>

\* A name that differs from its label in case is tracked and emits, while
\* another configured name has no label and no state.
C9_Witness ==
    /\ Processed /\ events # <<>>
    /\ \E j \in DOMAIN TARGET_CLASS_NAMES :
           /\ TARGET_CLASS_NAMES[j] \notin { class_names[i] : i \in DOMAIN class_names }
           /\ Lower(TARGET_CLASS_NAMES[j]) \in Classes
           /\ Len(EventsOf(Lower(TARGET_CLASS_NAMES[j]))) = 1
    /\ \E j \in DOMAIN TARGET_CLASS_NAMES :
           Lower(TARGET_CLASS_NAMES[j]) \notin Classes

\* C10: a class's present_since, last log time and events are those of the
\* class's machine run alone on the class's own presence signal and the same
\* timestamps; two classes that appear in the same frame emit one event each.
C10_ClassesDoNotInteract ==
    /\ \A c \in Classes :
           /\ solo[c].ops[c] = object_present_since[c]
           /\ (c \in DOMAIN solo[c].llt) = (c \in DOMAIN LAST_LOG_TIME)
           /\ (c \in DOMAIN LAST_LOG_TIME => solo[c].llt[c] = LAST_LOG_TIME[c])
           /\ (pc # "detected" /\ grab # "failed") => solo[c].events = EventsOf(c)
    /\ \A c, d \in Classes :
           ( /\ Processed /\ c # d
             /\ detected_in_current_frame[c] /\ ~prev_detected[c]
             /\ detected_in_current_frame[d] /\ ~prev_detected[d] )
           => Len(EventsOf(c)) = 1 /\ Len(EventsOf(d)) = 1 /\ Len(events) = 2

\* Two classes appear in the same frame, not the first of the run, and each
\* emits its event.
C10_Witness ==
    \E c, d \in Classes :
        /\ Processed /\ c # d /\ inferences >= 2
        /\ detected_in_current_frame[c] /\ ~prev_detected[c]
        /\ detected_in_current_frame[d] /\ ~prev_detected[d]
        /\ Len(events) = 2

\* C11: a class's events, in emission order, come from ever later frames and
\* have strictly increasing timestamps; a frame emits at most one event of a
\* class, and that event carries the frame's timestamp.
C11_EventsStrictlyOrdered ==
    \A c \in Classes :
        /\ \A i \in 1 .. (Len(event_log[c]) - 1) :
               /\ event_log[c][i].t < event_log[c][i + 1].t
               /\ event_log[c][i].frame < event_log[c][i + 1].frame
        /\ Len(EventsOf(c)) <= 1
        /\ \A i \in DOMAIN EventsOf(c) : EventsOf(c)[i].t = current_time

\* A class has three events, and its latest is of a frame in which another
\* class emitted an event too.
C11_Witness ==
    \E c, d \in Classes :
        /\ c # d
        /\ Len(event_log[c]) >= 3
        /\ Len(EventsOf(c)) = 1
        /\ Len(EventsOf(d)) = 1

\* C12: in the iteration on a frame in which a class is detected as it was in
\* the frame before, an event of the class is emitted exactly when the class
\* has no last log time or the frame's timestamp is at least the interval
\* after it; the last log time becomes the frame's timestamp on emission and
\* is kept otherwise; present_since is kept.
C12_SustainedPresenceRule ==
    [][ \A c \in Classes :
            ( /\ pc = "detected" /\ pc' # "detected"
              /\ detected_in_current_frame[c] /\ prev_detected[c] )
            => LET due == \/ c \notin DOMAIN LAST_LOG_TIME
                          \/ current_time' - LAST_LOG_TIME[c] >= Interval
                   n   == Len(SelectSeq(events', LAMBDA e : e.cls = c))
               IN  /\ n = (IF due THEN 1 ELSE 0)
                   /\ due => /\ c \in DOMAIN LAST_LOG_TIME'
                             /\ LAST_LOG_TIME'[c] = current_time'
                   /\ ~due => LAST_LOG_TIME'[c] = LAST_LOG_TIME[c]
                   /\ object_present_since'[c] = object_present_since[c]
                   /\ object_present_since[c] # None ]_vars

\* A class still present is logged again exactly one interval after its last
\* log, and present_since is older than the frame.
C12_Witness ==
    \E c \in Classes :
        /\ Processed
        /\ detected_in_current_frame[c] /\ prev_detected[c]
        /\ c \in DOMAIN llt_before
        /\ current_time - llt_before[c] = Interval
        /\ Len(EventsOf(c)) = 1
        /\ LAST_LOG_TIME[c] = current_time
        /\ object_present_since[c] < current_time

\* C13: after a complete iteration a class's present_since is set exactly when
\* the class was detected in the frame, and then it is the timestamp of the
\* first frame of the current run of detections of the class.
C13_PresentSinceIsRunStart ==
    Processed =>
        \A c \in Classes :
            /\ (object_present_since[c] # None) = detected_in_current_frame[c]
            /\ object_present_since[c] = run_start[c]

\* A class is in the third frame of its second run.
C13_Witness ==
    \E c \in Classes :
        /\ Processed
        /\ detected_in_current_frame[c] /\ prev_detected[c]
        /\ object_present_since[c] # None
        /\ object_present_since[c] < current_time
        /\ Len(event_log[c]) >= 2
        /\ event_log[c][Len(event_log[c])].appeared
        /\ event_log[c][Len(event_log[c])].t = object_present_since[c]

\* C14: a class that had a last log time when an iteration began has one after
\* it, and not an earlier one.
C14_LastLogNeverDecreases ==
    \A c \in DOMAIN llt_before :
        /\ c \in DOMAIN LAST_LOG_TIME
        /\ LAST_LOG_TIME[c] >= llt_before[c]

\* One class's last log time grew in an iteration in which another class,
\* absent, kept its own.
C14_Witness ==
    \E c, d \in DOMAIN llt_before :
        /\ LAST_LOG_TIME[c] > llt_before[c]
        /\ ~detected_in_current_frame[d]
        /\ LAST_LOG_TIME[d] = llt_before[d]

\* C15: a class whose present_since is set has a last log time, not earlier
\* than present_since; so the sustained-presence rule never finds a present
\* class without a last log time.
C15_PresentImpliesLogged ==
    \A c \in Classes :
        object_present_since[c] # None
        => /\ c \in DOMAIN LAST_LOG_TIME
           /\ LAST_LOG_TIME[c] >= object_present_since[c]

\* A frame is about to be decided for a class that is present and was logged
\* again since it appeared.
C15_Witness ==
    \E c \in Classes :
        /\ pc = "detected"
        /\ detected_in_current_frame[c]
        /\ object_present_since[c] # None
        /\ LAST_LOG_TIME[c] > object_present_since[c]

\* C16: the key is polled once in every iteration on a frame, after the
\* classes are updated; the iteration that reads 'q' has updated every class
\* and emitted the events due, and leaves the loop: no frame is pulled later.
C16_ShutdownPolledAtIterationEnd ==
    /\ polls = (IF pc = "detected" THEN inferences - 1 ELSE inferences)
    /\ quit_key
       => /\ pc = "stopped" /\ grab = "ok"
          /\ pulled = polls
          /\ \A c \in Classes :
                 /\ (object_present_since[c] # None) = detected_in_current_frame[c]
                 /\ (detected_in_current_frame[c] /\ ~prev_detected[c])
                    => /\ Len(EventsOf(c)) = 1
                       /\ LAST_LOG_TIME[c] = current_time

\* 'q' is read in a later iteration in which a class appeared and was logged.
C16_Witness ==
    /\ quit_key /\ pc = "stopped"
    /\ polls >= 2
    /\ \E c \in Classes :
           /\ detected_in_current_frame[c] /\ ~prev_detected[c]
           /\ Len(EventsOf(c)) = 1

\* C17 as claimed: the frame saved with an event holds a box of a class exactly
\* when the class emitted an event in the frame.
C17_BoxesOnlyOfEmitters ==
    (Processed /\ events # <<>>)
    => \A c \in Classes :
           (\E b \in annotated_frame : b.cls = c) = (Len(EventsOf(c)) >= 1)

\* C17, amended: the frame saved with an event holds a box of a class exactly
\* when the class is detected in the frame, whether or not it emitted; every
\* box drawn is above the threshold and of a target class.
C17_BoxesOfDetected ==
    (Processed /\ events # <<>>)
    => /\ \A c \in Classes :
              (\E b \in annotated_frame : b.cls = c) = detected_in_current_frame[c]
       /\ \A b \in annotated_frame : b.cls \in Classes /\ b.conf > ConfThreshold
       /\ \A i \in DOMAIN events : \E b \in annotated_frame : b.cls = events[i].cls

\* An image is saved for one class and holds a box of another class, which is
\* present and throttled.
C17_Witness ==
    \E c, d \in Classes :
        /\ Processed
        /\ Len(EventsOf(c)) = 1
        /\ EventsOf(d) = <<>>
        /\ \E b \in annotated_frame : b.cls = d
        /\ \E b \in annotated_frame : b.cls = c

\* C18 as claimed: at every entry into the loop every class is absent and has
\* no last log time.
C18_RestartForgets ==
    (pc = "running" /\ grab = "none")
    => \A c \in Classes :
           /\ object_present_since[c] = None
           /\ c \notin DOMAIN LAST_LOG_TIME

\* C19: a class has no last log time exactly when no event of it was ever
\* emitted; otherwise its last log time is the timestamp of its latest event.
C19_LastLogIsLatestEvent ==
    \A c \in Classes :
        /\ (c \notin DOMAIN LAST_LOG_TIME) = (event_log[c] = <<>>)
        /\ event_log[c] # <<>>
           => LAST_LOG_TIME[c] = event_log[c][Len(event_log[c])].t

\* One class has two events, the later one unwritten, and another has none.
C19_Witness ==
    \E c, d \in Classes :
        /\ Len(event_log[c]) >= 2
        /\ \E i \in DOMAIN events : events[i].cls = c /\ ~events[i].ok
        /\ event_log[d] = <<>>
        /\ d \notin DOMAIN LAST_LOG_TIME

\* C20: an event's name is its class and the whole second of its timestamp;
\* the events of a class's current run have different names; and two events
\* of a class have the same name only if the later one was emitted on an
\* appearance, in the whole second of the event before it.
C20_EvidenceNames ==
    LOG_INTERVAL_SECONDS >= 1 =>
    \A c \in Classes :
        LET log == event_log[c]
        IN  /\ \A i \in DOMAIN log :
                   /\ log[i].name.cls = c
                   /\ log[i].name.sec * TicksPerSecond <= log[i].t
                   /\ log[i].t < (log[i].name.sec + 1) * TicksPerSecond
            /\ \A i, j \in DOMAIN log :
                   ( /\ i < j
                     /\ run_start[c] # None
                     /\ log[i].t >= run_start[c] )
                   => log[i].name # log[j].name
            /\ \A i, j \in DOMAIN log :
                   (i < j /\ log[i].name = log[j].name)
                   => /\ log[j].appeared
                      /\ log[j - 1].name = log[j].name

\* A class has two events of one name, the later on its reappearance, while
\* the current run of another class has two events, of different names.
C20_Witness ==
    \E c, d \in Classes :
        /\ \E j \in DOMAIN event_log[c] :
               /\ j > 1
               /\ event_log[c][j].appeared
               /\ event_log[c][j - 1].name = event_log[c][j].name
        /\ Len(run_events[d]) >= 2
        /\ run_start[d] # None

\* The positions 0, k+1, 2(k+1), ... of a list of n entries.
PickedPositions(n, k) == { j \in 0 .. (n - 1) : j % (k + 1) = 0 }

\* C21: select_and_move_images ends; it has then moved the files at positions
\* 0, k+1, 2(k+1), ... of the sorted list of the source directory's files,
\* each once and in that order, k files lying between two consecutive moves;
\* every other entry of the source directory is where it was; and the number
\* of moves is the ceiling of n / (k+1).
C21_EveryKPlusOneMoved ==
    /\ [] ( /\ frame_index <= Len(all_frames)
            /\ pc = "picker_done"
               => LET n == Len(all_frames)
                      k == frames_to_skip
                  IN  /\ k >= 0
                      /\ all_frames = Sorted(Files(src_before))
                      /\ { moved[m].pos : m \in DOMAIN moved } = PickedPositions(n, k)
                      /\ \A m \in DOMAIN moved :
                             /\ moved[m].pos = (m - 1) * (k + 1)
                             /\ moved[m].name = all_frames[moved[m].pos + 1]
                      /\ \A m1, m2 \in DOMAIN moved :
                             m1 # m2 => moved[m1].name # moved[m2].name
                      /\ \A f \in DOMAIN source_dir :
                             source_dir[f] =
                                 IF \E m \in DOMAIN moved : moved[m].name = f
                                 THEN "none" ELSE src_before[f]
                      /\ dest_dir.exists
                      /\ \A m \in DOMAIN moved : moved[m].name \in dest_dir.files
                      /\ total_count = Len(moved)
                      /\ total_count = (n + k) \div (k + 1) )
    /\ <>(pc = "picker_done")

\* A run with k = 1 over three files and a directory: the first and the third
\* file are moved, into a directory that had to be made; the second file and
\* the directory are left behind.
C21_Witness ==
    /\ pc = "picker_done"
    /\ frames_to_skip = 1
    /\ Len(all_frames) = 3
    /\ Len(moved) = 2
    /\ moved[2].pos = 2
    /\ Cardinality(Files(source_dir)) = 1
    /\ \E f \in DOMAIN source_dir : source_dir[f] = "dir"
    /\ dest_dir.files = { moved[1].name, moved[2].name }

\* The order of the attempts in convert_video_to_frames.
DecodeOrder == <<"gpu", "cpu", "tonemap">>

\* C22: every conversion ends, after at most three attempts made in the order
\* GPU decoder, CPU decoder, CPU with tonemap; an attempt is made only after
\* every earlier one failed; the return value is (True, name, None) exactly
\* when the latest attempt succeeded, and (False, name, message) exactly when
\* three attempts were made and all failed; main files the name accordingly.
C22_DecodeFallbackOrder ==
    /\ [] ( \A v \in video_files :
              LET tried == conv[v].tried
                  ret   == conv[v].ret
                  n     == Len(tried)
              IN  /\ n <= 3
                  /\ \A a \in 1 .. n :
                         /\ tried[a].decoder = DecodeOrder[a]
                         /\ a < n => tried[a].outcome = "error"
                  /\ (ret = <<TRUE, v, None>>)
                         = (n > 0 /\ tried[n].outcome = "ok")
                  /\ (ret # <<>> /\ ~ret[1])
                         = (n = 3 /\ \A a \in 1 .. 3 : tried[a].outcome = "error")
                  /\ (ret # <<>> /\ ~ret[1]) => (ret[2] = v /\ ret[3] # None)
                  /\ (ret = <<>>) = (n < 3 /\ (n > 0 => tried[n].outcome = "error"))
                  /\ v \in Range(success_files) => (ret # <<>> /\ ret[1])
                  /\ v \in Range(failed_files) => (ret # <<>> /\ ~ret[1])
                  /\ pc = "extract_done" => ret # <<>> )
    /\ <>(pc = "extract_done")

\* One video was converted at its third attempt and another failed three
\* times, and main has filed both.
C22_Witness ==
    \E v, w \in video_files :
        /\ pc = "extract_done"
        /\ Len(conv[v].tried) = 3
        /\ conv[v].ret = <<TRUE, v, None>>
        /\ conv[w].ret = <<FALSE, w, 3>>
        /\ success_files = <<v>>
        /\ failed_files = <<w>>

=============================================================================
